---- MODULE Spec2Model ----
(***************************************************************************)
(* Model of src/renderer/resvg.rs: the ResvgRenderer, which compiles a     *)
(* terminal frame (lines of cells plus an optional cursor) into an SVG     *)
(* document and hands it to the rasterizer.                                *)
(*                                                                         *)
(* Representation.                                                         *)
(*   - A String that the code builds is a sequence of tokens, one token    *)
(*     per markup piece the code writes: an opening tag with its           *)
(*     attributes, a closing tag, an empty element, or character data.     *)
(*   - An f64 is an exact rational <<num, den>>.  The sizes met within the *)
(*     bounds are far from the points where binary rounding could change a *)
(*     truncation or a 3-decimals rounding.                                *)
(*   - "{:.3}" formatting is Fmt3: the value rounded to thousandths.       *)
(*   - Option<T>: None is << >>, Some(v) is <<v>>.                         *)
(*                                                                         *)
(* State.                                                                  *)
(*   - terminal_size .. header are the fields of the instance (options and *)
(*     transform, which hold the font database and the identity transform, *)
(*     are left out); settings is the Settings value new() consumed.       *)
(*   - lines and cursor are the frame a call is given, svg the document    *)
(*     the latest call (or new()) compiled, out what the latest call       *)
(*     returned.                                                           *)
(***************************************************************************)
EXTENDS Integers, Sequences, FiniteSets, TLC

VARIABLES settings, terminal_size, theme, pixel_width, pixel_height,
          char_width, row_height, header, lines, cursor, svg, out

inst == <<terminal_size, theme, pixel_width, pixel_height, char_width,
          row_height, header>>

vars == <<settings, terminal_size, theme, pixel_width, pixel_height, char_width,
          row_height, header, lines, cursor, svg, out>>

----------------------------------------------------------------------------
(* Bounds of the model *)

MaxCols == 3

MaxRows == 2

MaxInk == 3

MaxStyled == 1

----------------------------------------------------------------------------
(* Option, rationals, formatting *)

None == << >>

Some(v) == <<v>>

unwrap_or(o, d) == IF o = None THEN d ELSE o[1]

Rat(n, d) == <<n, d>>

\* "{:.3}": thousandths of the value, rounded to nearest
Fmt3(q) == (2000 * q[1] + q[2]) \div (2 * q[2])

\* "as usize" of a non-negative float: truncation
Trunc(q) == q[1] \div q[2]

----------------------------------------------------------------------------
(* Data model: colours, themes, pens, cells, lines, settings *)

Red == <<255, 0, 0>>

Blue == <<0, 0, 255>>

Dracula == [foreground |-> <<248, 248, 242>>, background |-> <<40, 42, 54>>]

Themes == {Dracula}

Pen(fg, bg, bold, italic, underline, inverse) ==
    [foreground |-> fg, background |-> bg, bold |-> bold, italic |-> italic,
     underline |-> underline, inverse |-> inverse]

DefaultPen == Pen(None, None, FALSE, FALSE, FALSE, FALSE)

Cell(ch, width, pen) == [ch |-> ch, width |-> width, pen |-> pen]

Blank == Cell(" ", 1, DefaultPen)

\* The glyphs the text pass distinguishes, plus ordinary ones
Reserved == {"'", "\"", "&", "<", ">"}

\* The cells most of a frame is made of: the blank cell, a plain glyph, and
\* a wide glyph with both colours
CoreCells ==
    {Blank,
     Cell("A", 1, DefaultPen),
     Cell("W", 2, Pen(Some(Red), Some(Blue), FALSE, FALSE, FALSE, FALSE))}

\* The other cells: every reserved glyph, under the pens that exercise
\* colours, the style flags and reverse video, the spaces that get a
\* background, and a wide glyph without one
StyledCells ==
    {Cell("'", 1, DefaultPen),
     Cell("\"", 1, Pen(Some(Red), None, TRUE, FALSE, TRUE, FALSE)),
     Cell("&", 1, Pen(None, Some(Blue), FALSE, FALSE, FALSE, TRUE)),
     Cell("<", 1, Pen(None, None, FALSE, FALSE, FALSE, TRUE)),
     Cell(">", 1, Pen(Some(Red), Some(Blue), FALSE, TRUE, FALSE, TRUE)),
     Cell(" ", 1, Pen(None, Some(Blue), FALSE, FALSE, FALSE, FALSE)),
     Cell(" ", 1, Pen(None, None, FALSE, FALSE, FALSE, TRUE)),
     Cell("W", 2, DefaultPen)}

CellKinds == CoreCells \cup StyledCells

Ink(c) == IF c = Blank THEN 0 ELSE 1

RECURSIVE LinesOfWidth(_, _, _)
\* All lines of cells of the given kinds whose widths add up to w, with at
\* most ink non-blank cells
LinesOfWidth(kinds, w, ink) ==
    IF w = 0 THEN {<< >>}
    ELSE UNION {{<<c>> \o l : l \in LinesOfWidth(kinds, w - c.width, ink - Ink(c))} :
                c \in {k \in kinds : k.width <= w /\ Ink(k) <= ink}}

RECURSIVE InkOfLine(_)
InkOfLine(line) ==
    IF line = << >> THEN 0 ELSE Ink(line[1]) + InkOfLine(Tail(line))

RECURSIVE FramesOf(_, _, _, _)
\* The frames of rows lines of cols columns with at most ink non-blank cells
FramesOf(kinds, cols, rows, ink) ==
    IF rows = 0 THEN {<< >>}
    ELSE UNION {{<<l>> \o f : f \in FramesOf(kinds, cols, rows - 1, ink - InkOfLine(l))} :
                l \in LinesOfWidth(kinds, cols, ink)}

\* Frames with up to MaxInk core cells, and frames with up to MaxStyled
\* styled cells, on a blank screen
Frames(cols, rows) ==
    FramesOf(CoreCells, cols, rows, MaxInk)
    \cup FramesOf(StyledCells \cup {Blank}, cols, rows, MaxStyled)

\* No cursor, or the cursor at (col, row), 0-based: anywhere in the first
\* row, or at the start of the second
Cursors(cols, rows) ==
    {None}
    \cup {Some([col |-> c, row |-> 0]) : c \in 0..(cols - 1)}
    \cup {Some([col |-> 0, row |-> r]) : r \in {1} \cap 0..(rows - 1)}

LineHeight == Rat(14, 10)

FontFamilies == <<"JetBrains Mono", "Fira Code">>

\* Settings of the renderers whose frames are explored in full; the canvas
\* background is painted, so that the header holds a rect of its own
SettingsSet ==
    [terminal_size : (1..MaxCols) \X (1..MaxRows),
     font_size : {14},
     line_height : {LineHeight},
     font_families : {FontFamilies},
     theme : Themes,
     fill_background : {TRUE},
     pixel_width : {None},
     pixel_height : {None}]

\* Settings of the renderers that are called repeatedly: font metrics and
\* explicit pixel sizes vary
SeqSettingsSet ==
    [terminal_size : (1..MaxCols) \X (1..MaxRows),
     font_size : {14, 16},
     line_height : {LineHeight, Rat(1, 1)},
     font_families : {FontFamilies},
     theme : Themes,
     fill_background : BOOLEAN,
     pixel_width : {None, Some(640)},
     pixel_height : {None, Some(480)}]

\* The frames passed in a sequence of calls: the screen filled with one
\* kind of narrow cell
SeqFrames(cols, rows) ==
    {[r \in 1..rows |-> [c \in 1..cols |-> k]] : k \in {k \in CellKinds : k.width = 1}}

SeqCursors == {None, Some([col |-> 0, row |-> 0])}

----------------------------------------------------------------------------
(* Markup tokens *)

Open(tag, a) == [k |-> "open", tag |-> tag, a |-> a]

Close(tag) == [k |-> "close", tag |-> tag, a |-> [none |-> TRUE]]

Empty(tag, a) == [k |-> "empty", tag |-> tag, a |-> a]

Chars(s) == [k |-> "chars", tag |-> "", a |-> [s |-> s]]

Decl == [k |-> "decl", tag |-> "xml", a |-> [version |-> "1.0"]]

----------------------------------------------------------------------------
(* Helpers of the renderer module that the file imports *)

\* super::color_to_rgb, for the RGB colours of the model
color_to_rgb(color, th) == color

\* super::text_attrs: resolved attributes of the cell at column x, row y.
\* Foreground and background are exchanged, each falling back to the theme
\* colour, when the pen is reverse-video or the cursor is on the cell, and
\* not when both hold; the style flags pass through.
text_attrs(pen, cur, x, y, th) ==
    LET under == cur # None /\ cur[1].col = x /\ cur[1].row = y
        swap  == (pen.inverse /\ ~under) \/ (~pen.inverse /\ under)
    IN  [foreground |-> IF swap THEN Some(unwrap_or(pen.background, th.background))
                        ELSE pen.foreground,
         background |-> IF swap THEN Some(unwrap_or(pen.foreground, th.foreground))
                        ELSE pen.background,
         bold |-> pen.bold, italic |-> pen.italic, underline |-> pen.underline]

----------------------------------------------------------------------------
(* Style helpers *)

color_to_style(color, th) == <<"fill: rgb", color_to_rgb(color, th)>>

\* The class string, as the sequence of its pieces
text_class(attrs) ==
    (IF attrs.bold THEN <<"br">> ELSE << >>)
    \o (IF attrs.italic THEN <<" it">> ELSE << >>)
    \o (IF attrs.underline THEN <<" un">> ELSE << >>)

text_style(attrs, th) ==
    IF attrs.foreground = None THEN << >>
    ELSE color_to_style(attrs.foreground[1], th)

rect_style(attrs, th) ==
    IF attrs.background = None THEN << >>
    ELSE color_to_style(attrs.background[1], th)

----------------------------------------------------------------------------
(* Construction *)

\* canvas_width without the two margin columns
canvas_width_nomargin(cols, font_size) == Rat(cols * font_size * 6, 10)

\* width = (cols + 2) * (font_size * 0.6)
canvas_width(cols, font_size) == Rat((cols + 2) * font_size * 6, 10)

\* height = (rows + 1) * row_height
canvas_height(rows, rh) == Rat((rows + 1) * rh[1], rh[2])

ResvgRenderer_header(size, font_family, font_size, rh, th, fill_background) ==
    LET cols   == size[1]
        rows   == size[2]
        width  == canvas_width(cols, font_size)
        height == canvas_height(rows, rh)
        x      == Rat(100, cols + 2)
        y      == Rat(50, rows + 1)
    IN  <<Decl,
          Open("svg", [width |-> width, height |-> height,
                       font_size |-> font_size, font_family |-> font_family]),
          Open("style", [none |-> TRUE]),
          Chars(<<".br { font-weight: bold }", ".it { font-style: italic }",
                  ".un { text-decoration: underline }">>),
          Close("style")>>
        \o (IF fill_background
            THEN <<Empty("rect", [width |-> "100%", height |-> "100%",
                                  rx |-> 4, ry |-> 4,
                                  style |-> <<"fill: ", th.background>>])>>
            ELSE << >>)
        \o <<Open("svg", [x |-> Fmt3(x), y |-> Fmt3(y),
                          style |-> <<"fill: ", th.foreground>>])>>

\* footer closing only one of the two svg elements
footer_short == <<Close("svg")>>

footer == <<Close("svg"), Close("svg")>>

\* usvg::Tree::from_str(..).size(): the width and height of the root svg
TreeSize(doc) ==
    LET root == doc[CHOOSE i \in 1..Len(doc) :
                      /\ doc[i].k = "open"
                      /\ \A j \in 1..(i - 1) : doc[j].k # "open"]
    IN  [width |-> root.a.width, height |-> root.a.height]

new(st) ==
    LET cw  == Rat(100, st.terminal_size[1] + 2)
        fs  == st.font_size
        rh  == Rat(fs * st.line_height[1], st.line_height[2])
        hd  == ResvgRenderer_header(st.terminal_size, st.font_families,
                                    fs, rh, st.theme, st.fill_background)
        doc == hd \o footer
        sz  == TreeSize(doc)
    IN  [terminal_size |-> st.terminal_size,
         theme |-> st.theme,
         pixel_width |-> unwrap_or(st.pixel_width, Trunc(sz.width)),
         pixel_height |-> unwrap_or(st.pixel_height, Trunc(sz.height)),
         char_width |-> cw,
         row_height |-> rh,
         header |-> hd,
         svg |-> doc]

----------------------------------------------------------------------------
(* The two passes.  Each takes the string built so far and returns it with  *)
(* the pass appended; the instance fields are read from the state.          *)

\* cell_x without the two margin columns in the denominator
cell_x_nomargin(col) == Fmt3(Rat(100 * col, terminal_size[1]))

\* x = 100.0 * col / (cols + 2.0), written with "{:.3}%"
cell_x(col) == Fmt3(Rat(100 * col, terminal_size[1] + 2))

\* y = 100.0 * row / (rows + 1.0), written with "{:.3}%"
row_y(row) == Fmt3(Rat(100 * row, terminal_size[2] + 1))

\* width = self.char_width * cell.width(), written with "{:.3}%"
rect_width(cell) == Fmt3(Rat(char_width[1] * cell.width, char_width[2]))

\* advance by one column whatever the cell's width
advance_one(col, cell) == col + 1

\* col += cell.width()
advance(col, cell) == col + cell.width

\* background_rect resolving the cell without the cursor
background_rect_nocursor(cell, col, row, cur) ==
    LET attrs == text_attrs(cell.pen, None, col, row, theme)
    IN  IF attrs.background = None THEN << >>
        ELSE <<Empty("rect", [x |-> cell_x(col),
                              y |-> row_y(row),
                              width |-> rect_width(cell),
                              height |-> Fmt3(row_height),
                              style |-> rect_style(attrs, theme)])>>

\* background_rect deciding on the pen's own background, not the resolved one
background_rect_rawpen(cell, col, row, cur) ==
    LET attrs == text_attrs(cell.pen, cur, col, row, theme)
    IN  IF cell.pen.background = None THEN << >>
        ELSE <<Empty("rect", [x |-> cell_x(col),
                              y |-> row_y(row),
                              width |-> rect_width(cell),
                              height |-> Fmt3(row_height),
                              style |-> rect_style(attrs, theme)])>>

\* What the background pass writes for one cell: nothing, or one rect
background_rect(cell, col, row, cur) ==
    LET attrs == text_attrs(cell.pen, cur, col, row, theme)
    IN  IF attrs.background = None THEN << >>
        ELSE <<Empty("rect", [x |-> cell_x(col),
                              y |-> row_y(row),
                              width |-> rect_width(cell),
                              height |-> Fmt3(row_height),
                              style |-> rect_style(attrs, theme)])>>

push_background(doc, ls, cur) ==
    LET \* the cells of one line from index i on, the column counter being col
        RECURSIVE cells(_, _, _, _)
        cells(line, row, i, col) ==
            IF i > Len(line) THEN << >>
            ELSE background_rect(line[i], col, row, cur)
                 \o cells(line, row, i + 1, advance(col, line[i]))
        RECURSIVE rowsFrom(_)
        rowsFrom(r) ==
            IF r > Len(ls) THEN << >>
            ELSE cells(ls[r], r - 1, 1, 0) \o rowsFrom(r + 1)
    IN  doc \o <<Open("g", [style |-> "shape-rendering: optimizeSpeed"])>>
            \o rowsFrom(1)
            \o <<Close("g")>>

\* escape with the entities of < and > exchanged
escape_swapped(ch) ==
    CASE ch = "'"  -> "&#39;"
      [] ch = "\"" -> "&quot;"
      [] ch = "&"  -> "&amp;"
      [] ch = ">"  -> "&lt;"
      [] ch = "<"  -> "&gt;"
      [] OTHER     -> ch

\* The text content written for a glyph
escape(ch) ==
    CASE ch = "'"  -> "&#39;"
      [] ch = "\"" -> "&quot;"
      [] ch = "&"  -> "&amp;"
      [] ch = ">"  -> "&gt;"
      [] ch = "<"  -> "&lt;"
      [] OTHER     -> ch

\* dy_attr that never looks at the flag
dy_attr_always(did_dy) == "1em"

\* The start-of-line marker of a run: dy="1em" unless the row already has it
dy_attr(did_dy) == IF ~did_dy THEN "1em" ELSE ""

\* What the text pass writes for one cell: nothing for a space, or one run
text_run(cell, col, row, cur, did_dy) ==
    IF cell.ch = " " THEN << >>
    ELSE LET attrs == text_attrs(cell.pen, cur, col, row, theme)
         IN  <<Open("tspan", [dy |-> dy_attr(did_dy),
                              x |-> cell_x(col),
                              class |-> text_class(attrs),
                              style |-> text_style(attrs, theme)]),
               Chars(escape(cell.ch)),
               Close("tspan")>>

push_text(doc, ls, cur) ==
    LET RECURSIVE cells(_, _, _, _, _)
        cells(line, row, i, col, did_dy) ==
            IF i > Len(line) THEN << >>
            ELSE text_run(line[i], col, row, cur, did_dy)
                 \o cells(line, row, i + 1, advance(col, line[i]),
                          did_dy \/ line[i].ch # " ")
        RECURSIVE rowsFrom(_)
        rowsFrom(r) ==
            IF r > Len(ls) THEN << >>
            ELSE <<Open("tspan", [y |-> row_y(r - 1)])>>
                 \o cells(ls[r], r - 1, 1, 0, FALSE)
                 \o <<Close("tspan")>>
                 \o rowsFrom(r + 1)
    IN  doc \o <<Open("text", [class |-> "default-text-fill"])>>
            \o rowsFrom(1)
            \o <<Close("text")>>

\* push_lines with the two passes in the other order
push_lines_text_first(doc, ls, cur) == push_background(push_text(doc, ls, cur), ls, cur)

push_lines(doc, ls, cur) == push_text(push_background(doc, ls, cur), ls, cur)

\* The document render_pixmap hands to usvg, and the pixmap it returns
render_document(ls, cur) == push_lines(header, ls, cur) \o footer

render_pixmap(ls, cur) == [width |-> pixel_width, height |-> pixel_height]

----------------------------------------------------------------------------
(* Specification: an instance and one frame, rendered by either entry      *)
(* point                                                                   *)

\* The instance is the one new(settings) returns
Constructed ==
    LET self == new(settings)
    IN  /\ terminal_size = self.terminal_size
        /\ theme = self.theme
        /\ pixel_width = self.pixel_width
        /\ pixel_height = self.pixel_height
        /\ char_width = self.char_width
        /\ row_height = self.row_height
        /\ header = self.header
        /\ svg = self.svg
        /\ out = [op |-> "new"]

Init ==
    /\ settings \in SettingsSet
    /\ Constructed
    /\ lines \in Frames(settings.terminal_size[1], settings.terminal_size[2])
    /\ cursor \in Cursors(settings.terminal_size[1], settings.terminal_size[2])

\* render taking the canvas size from the compiled document again
render_resizing(ls, cur) ==
    /\ svg' = render_document(ls, cur)
    /\ pixel_width' = Trunc(TreeSize(svg').width)
    /\ pixel_height' = Trunc(TreeSize(svg').height)
    /\ out' = [op |-> "render", image |-> [width |-> pixel_width', height |-> pixel_height']]
    /\ lines' = ls
    /\ cursor' = cur
    /\ UNCHANGED <<settings, terminal_size, theme, char_width, row_height, header>>

render(ls, cur) ==
    /\ svg' = render_document(ls, cur)
    /\ out' = [op |-> "render", image |-> render_pixmap(ls, cur)]
    /\ lines' = ls
    /\ cursor' = cur
    /\ UNCHANGED <<settings, inst>>

render_png(ls, cur) ==
    /\ svg' = render_document(ls, cur)
    /\ out' = [op |-> "render_png", image |-> render_pixmap(ls, cur)]
    /\ lines' = ls
    /\ cursor' = cur
    /\ UNCHANGED <<settings, inst>>

pixel_size ==
    /\ out' = [op |-> "pixel_size", image |-> [width |-> pixel_width, height |-> pixel_height]]
    /\ UNCHANGED <<settings, inst, lines, cursor, svg>>

Next ==
    \/ render(lines, cursor)
    \/ render_png(lines, cursor)

Spec == Init /\ [][Next]_vars

----------------------------------------------------------------------------
(* Specification: an instance called any number of times with changing     *)
(* frames                                                                  *)

InitSeq ==
    /\ settings \in SeqSettingsSet
    /\ Constructed
    /\ lines = << >>
    /\ cursor = None

NextSeq ==
    \/ \E ls \in SeqFrames(terminal_size[1], terminal_size[2]), cur \in SeqCursors :
          render(ls, cur)
    \/ \E ls \in SeqFrames(terminal_size[1], terminal_size[2]), cur \in SeqCursors :
          render_png(ls, cur)
    \/ pixel_size

SpecSeq == InitSeq /\ [][NextSeq]_vars

----------------------------------------------------------------------------
(* Reading a compiled document back, for the properties below *)

\* A render call has returned: svg is the document compiled from lines, cursor
Rendered == out.op \in {"render", "render_png"}

Cols == terminal_size[1]

Rows == terminal_size[2]

RECURSIVE ColOf(_, _)
\* The column at which the i-th cell of a line starts
ColOf(line, i) == IF i = 1 THEN 0 ELSE ColOf(line, i - 1) + line[i - 1].width

\* The cells of the frame, as <<line number, index in the line>>
CellsOfFrame == UNION {{<<r, i>> : i \in 1..Len(lines[r])} : r \in 1..Len(lines)}

CellAt(p) == lines[p[1]][p[2]]

\* 100 * col / (cols + 2) percent, in thousandths
PercentX(col) == (200000 * col + (Cols + 2)) \div (2 * (Cols + 2))

\* 100 * row / (rows + 1) percent, in thousandths
PercentY(row) == (200000 * row + (Rows + 1)) \div (2 * (Rows + 1))

\* The attributes the cell resolves to at its place in the frame
ResolvedAt(p) ==
    text_attrs(CellAt(p).pen, cursor, ColOf(lines[p[1]], p[2]), p[1] - 1, theme)

IndexOf(k, tag) == CHOOSE i \in 1..Len(svg) : svg[i].k = k /\ svg[i].tag = tag

\* Positions of the document strictly inside <g> .. </g>, and <text> .. </text>
BackgroundPass == (IndexOf("open", "g") + 1)..(IndexOf("close", "g") - 1)

TextPass == (IndexOf("open", "text") + 1)..(IndexOf("close", "text") - 1)

IsRect(t) == t.k = "empty" /\ t.tag = "rect"

IsRowOpen(t) == t.k = "open" /\ t.tag = "tspan" /\ "y" \in DOMAIN t.a

IsRun(t) == t.k = "open" /\ t.tag = "tspan" /\ "x" \in DOMAIN t.a

PassRects == {j \in BackgroundPass : IsRect(svg[j])}

RECURSIVE RowOpensFrom(_, _)
\* Positions of the row elements between i and hi, in document order
RowOpensFrom(i, hi) ==
    IF i > hi THEN << >>
    ELSE IF IsRowOpen(svg[i]) THEN <<i>> \o RowOpensFrom(i + 1, hi)
    ELSE RowOpensFrom(i + 1, hi)

\* Positions of the row elements of the text pass, in document order
RowOpens == RowOpensFrom(IndexOf("open", "text") + 1, IndexOf("close", "text") - 1)

\* Position of the r-th row element of the text pass, and of what ends it
RowStart(r) == RowOpens[r]

RowEnd(r) ==
    LET rows == RowOpens
    IN  IF r = Len(rows) THEN IndexOf("close", "text") ELSE rows[r + 1]

\* Positions of the text runs inside the r-th row element
RunsOfRow(r) == {j \in (RowStart(r) + 1)..(RowEnd(r) - 1) : IsRun(svg[j])}

\* The run of the r-th row positioned at column col
RunsAt(r, col) == {j \in RunsOfRow(r) : svg[j].a.x = PercentX(col)}

\* The rectangles of the background pass positioned at (col, row)
RectsAt(col, row) ==
    {j \in PassRects : svg[j].a.x = PercentX(col) /\ svg[j].a.y = PercentY(row)}

----------------------------------------------------------------------------
(* Properties *)

\* C1: in the background pass a cell whose resolved background is None
\* produces no rectangle and a cell whose resolved background is Some
\* produces exactly one, so the pass holds as many rectangles as there are
\* cells with a resolved background.
C1_BackgroundSparsity ==
    Rendered =>
        /\ \A p \in CellsOfFrame :
              Cardinality(RectsAt(ColOf(lines[p[1]], p[2]), p[1] - 1))
                  = IF ResolvedAt(p).background = None THEN 0 ELSE 1
        /\ Cardinality(PassRects)
              = Cardinality({p \in CellsOfFrame : ResolvedAt(p).background # None})

\* A frame under a cursor with cells of both kinds has been rendered
C1_Witness ==
    /\ Rendered
    /\ cursor # None
    /\ \E p, q \in CellsOfFrame :
          /\ ResolvedAt(p).background = None
          /\ ResolvedAt(q).background # None
          /\ CellAt(q).pen.background = None

\* C2: in the text pass every non-space cell produces exactly one run and
\* every space cell none; the run of the cell starting at column col is at
\* x = 100*col/(cols+2) percent inside the row element at
\* y = 100*row/(rows+1) percent.
C2_TextRuns ==
    Rendered =>
        /\ Len(RowOpens) = Len(lines)
        /\ \A r \in 1..Len(lines) :
              LET runs == RunsOfRow(r)
              IN  /\ svg[RowStart(r)].a.y = PercentY(r - 1)
                  /\ \A i \in 1..Len(lines[r]) :
                        Cardinality({j \in runs : svg[j].a.x = PercentX(ColOf(lines[r], i))})
                            = IF lines[r][i].ch = " " THEN 0 ELSE 1
                  /\ Cardinality(runs)
                        = Cardinality({i \in 1..Len(lines[r]) : lines[r][i].ch # " "})

\* A glyph after a space, below the first row, has been rendered
C2_Witness ==
    /\ Rendered
    /\ \E p \in CellsOfFrame :
          /\ p[1] > 1
          /\ p[2] > 1
          /\ CellAt(p).ch # " "
          /\ lines[p[1]][p[2] - 1].ch = " "
          /\ RunsAt(p[1], ColOf(lines[p[1]], p[2])) # {}

\* The predefined entity of a reserved character
XmlEntity(ch) ==
    CASE ch = "'"  -> "&#39;"
      [] ch = "\"" -> "&quot;"
      [] ch = "&"  -> "&amp;"
      [] ch = "<"  -> "&lt;"
      [] ch = ">"  -> "&gt;"

\* What a reader of the document takes character data to mean
Unescape(s) ==
    CASE s = "&#39;"  -> "'"
      [] s = "&quot;" -> "\""
      [] s = "&amp;"  -> "&"
      [] s = "&lt;"   -> "<"
      [] s = "&gt;"   -> ">"
      [] OTHER        -> s

\* The character data written inside the run of cell p
ContentOf(p) ==
    LET j == CHOOSE j \in RunsAt(p[1], ColOf(lines[p[1]], p[2])) : TRUE
    IN  svg[j + 1]

\* C3: a reserved glyph is written as its entity and never raw, any other
\* glyph is written unchanged, and unescaping what was written gives the
\* glyph back.
C3_Escaping ==
    Rendered =>
        /\ \A j \in TextPass : svg[j].k = "chars" => svg[j].a.s \notin Reserved
        /\ \A p \in CellsOfFrame :
              CellAt(p).ch # " " =>
                  LET t == ContentOf(p)
                      ch == CellAt(p).ch
                  IN  /\ t.k = "chars"
                      /\ (ch \in Reserved => t.a.s = XmlEntity(ch))
                      /\ (ch \notin Reserved => t.a.s = ch)
                      /\ Unescape(t.a.s) = ch

\* A reserved glyph has been rendered
C3_Witness ==
    /\ Rendered
    /\ \E p \in CellsOfFrame :
          /\ CellAt(p).ch \in Reserved
          /\ ContentOf(p).a.s = XmlEntity(CellAt(p).ch)

\* The frame with the reverse-video flag of cell p cleared
PlainFrame(p) == [lines EXCEPT ![p[1]][p[2]].pen.inverse = FALSE]

\* Cell p is reverse-video and the cursor is on it
ReverseUnderCursor(p) ==
    /\ CellAt(p).pen.inverse
    /\ cursor # None
    /\ cursor[1].col = ColOf(lines[p[1]], p[2])
    /\ cursor[1].row = p[1] - 1

PercentWidth(w) == (2000 * w * char_width[1] + char_width[2]) \div (2 * char_width[2])

\* C5: in both passes the column of a cell is the sum of the widths of the
\* cells before it, whether or not those produced an element, so the rects
\* and the runs of a row sit at the columns of the cells that produce them;
\* a rectangle is cell.width() * char_width wide, 2 * char_width for a wide
\* cell.
C5_ColumnAdvance ==
    Rendered =>
        \A r \in 1..Len(lines) :
            /\ {svg[j].a.x : j \in {k \in PassRects : svg[k].a.y = PercentY(r - 1)}}
                  = {PercentX(ColOf(lines[r], i)) :
                        i \in {k \in 1..Len(lines[r]) : ResolvedAt(<<r, k>>).background # None}}
            /\ {svg[j].a.x : j \in RunsOfRow(r)}
                  = {PercentX(ColOf(lines[r], i)) :
                        i \in {k \in 1..Len(lines[r]) : lines[r][k].ch # " "}}
            /\ \A i \in 1..Len(lines[r]) :
                  \A j \in RectsAt(ColOf(lines[r], i), r - 1) :
                      svg[j].a.width = PercentWidth(lines[r][i].width)

\* A wide cell with a rectangle, followed in its row by a cell that has both
\* a rectangle and a run, has been rendered
C5_Witness ==
    /\ Rendered
    /\ \E p \in CellsOfFrame :
          /\ p[2] > 1
          /\ lines[p[1]][p[2] - 1].width = 2
          /\ ColOf(lines[p[1]], p[2]) = 2
          /\ \E j \in RectsAt(0, p[1] - 1) : svg[j].a.width = PercentWidth(2)
          /\ RectsAt(2, p[1] - 1) # {}
          /\ RunsAt(p[1], 2) # {}

\* Positions of the document after the header
Body == (Len(header) + 1)..Len(svg)

\* C7: the background pass is complete before the text pass starts: every
\* rectangle of the frame precedes every run, and </g> precedes <text>.
C7_BackgroundBeforeText ==
    Rendered =>
        /\ IndexOf("close", "g") < IndexOf("open", "text")
        /\ \A i \in Body : IsRect(svg[i]) => i \in BackgroundPass
        /\ \A j \in Body : IsRun(svg[j]) => j \in TextPass
        /\ \A i, j \in Body : IsRect(svg[i]) /\ IsRun(svg[j]) => i < j

\* A rectangle of the second row and a run of the first have been rendered
C7_Witness ==
    /\ Rendered
    /\ Len(lines) >= 2
    /\ RunsOfRow(1) # {}
    /\ \E j \in PassRects : svg[j].a.y = PercentY(1)

RECURSIVE Nesting(_, _, _)
\* The stack of open elements after reading doc from position i on, or
\* <<"error">> when an element is closed that is not the innermost open one
Nesting(doc, i, stack) ==
    IF i > Len(doc) THEN stack
    ELSE IF doc[i].k = "open" THEN Nesting(doc, i + 1, <<doc[i].tag>> \o stack)
    ELSE IF doc[i].k = "close"
         THEN IF stack # << >> /\ Head(stack) = doc[i].tag
              THEN Nesting(doc, i + 1, Tail(stack))
              ELSE <<"error">>
    ELSE Nesting(doc, i + 1, stack)

\* C8: every document the instance compiles, the one of new() included, is
\* balanced: elements are closed innermost first and none is left open.
C8_Balanced == Nesting(svg, 1, << >>) = << >>

\* A frame of two rows with rectangles and runs has been rendered
C8_Witness ==
    /\ Rendered
    /\ Len(lines) >= 2
    /\ PassRects # {}
    /\ \E r \in 1..Len(lines) : RunsOfRow(r) # {}

\* C10: in every row with a non-space glyph the first run, and only it,
\* carries dy="1em"; a row of spaces has no run at all, whatever the rows
\* before it held.
C10_StartOfLineMarker ==
    Rendered =>
        \A r \in 1..Len(lines) :
            LET runs   == RunsOfRow(r)
                marked == {j \in runs : svg[j].a.dy = "1em"}
            IN  /\ (runs # {}) = (\E i \in 1..Len(lines[r]) : lines[r][i].ch # " ")
                /\ Cardinality(marked) = IF runs = {} THEN 0 ELSE 1
                /\ \A j \in marked : \A k \in runs : j <= k
                /\ \A j \in runs \ marked : svg[j].a.dy = ""

\* A first row with two runs and a second row with a run have been rendered
C10_Witness ==
    /\ Rendered
    /\ Len(lines) >= 2
    /\ Cardinality(RunsOfRow(1)) >= 2
    /\ \E j \in RunsOfRow(2) : svg[j].a.dy = "1em"

\* The instance was built without explicit pixel sizes
AutoSized == settings.pixel_width = None /\ settings.pixel_height = None

\* C6 as stated: without explicit sizes pixel_size() is (cols+2) * char_width
\* by (rows+1) * row_height, char_width and row_height being the cached
\* fields (to within the pixel lost by truncation).
C6_AsStated ==
    (AutoSized /\ out.op = "pixel_size") =>
        /\ out.image.width * char_width[2] <= (Cols + 2) * char_width[1]
        /\ (Cols + 2) * char_width[1] < (out.image.width + 1) * char_width[2]
        /\ out.image.height * row_height[2] <= (Rows + 1) * row_height[1]
        /\ (Rows + 1) * row_height[1] < (out.image.height + 1) * row_height[2]

\* C6 amended: without explicit sizes pixel_size() is (cols+2) * 0.6 *
\* font_size by (rows+1) * row_height, each truncated to an integer; the
\* cached char_width is the percentage 100/(cols+2) and plays no part.
C6_CanvasSize ==
    (AutoSized /\ out.op = "pixel_size") =>
        /\ out.image.width = ((Cols + 2) * settings.font_size * 6) \div 10
        /\ out.image.height = ((Rows + 1) * row_height[1]) \div row_height[2]
        /\ char_width[1] * (Cols + 2) = 100 * char_width[2]

\* pixel_size() has returned the truncated size of an auto-sized canvas
C6_Witness ==
    /\ AutoSized
    /\ out.op = "pixel_size"
    /\ out.image.width * 10 < (Cols + 2) * settings.font_size * 6
    /\ out.image.height * row_height[2] < (Rows + 1) * row_height[1]

\* C9: whatever calls have been made, the fields of the instance are those
\* new() gave them, and every call reports the canvas size of new().
C9_FrameEffect ==
    LET self == new(settings)
    IN  /\ terminal_size = self.terminal_size
        /\ theme = self.theme
        /\ pixel_width = self.pixel_width
        /\ pixel_height = self.pixel_height
        /\ char_width = self.char_width
        /\ row_height = self.row_height
        /\ header = self.header
        /\ out.op # "new" =>
              out.image = [width |-> self.pixel_width, height |-> self.pixel_height]

\* pixel_size() has been called after a render of an explicitly sized instance
C9_Witness ==
    /\ out.op = "pixel_size"
    /\ lines # << >>
    /\ settings.pixel_width # None
    /\ settings.pixel_height = None

====
